---- MODULE Spec2Model ----
(***************************************************************************)
(* FileUploaderDropContainer                                               *)
(* (packages/react/src/components/FileUploader/FileUploaderDropContainer   *)
(* .tsx): the drag state, the click / keyboard activation of the hidden    *)
(* file input, and validateFiles, the classification of the transferred    *)
(* files against the accept list.                                          *)
(*                                                                         *)
(* Strings are sequences of one-character strings, so that the regular     *)
(* expression, toLowerCase and Set.has are computed character by           *)
(* character.                                                              *)
(***************************************************************************)
EXTENDS Integers, Sequences, FiniteSets, TLC

VARIABLES
  accept,        \* prop accept: string[]
  pattern,       \* prop pattern: the source of the regular expression
  disabled,      \* prop disabled
  isActive,      \* useState(false): the drag-over state
  inputValue,    \* the file input's stored selection (NoSelection = cleared)
  pickerOpen,    \* the native file picker opened by a click on the input
  prevSelection, \* the file list chosen the last time the picker was used
  dragged,       \* the drag in progress: <<>> or <<its file list>>
  last           \* what the most recent step did (see Step)

vars == <<accept, pattern, disabled, isActive, inputValue, pickerOpen,
          prevSelection, dragged, last>>

-----------------------------------------------------------------------------
(* Bounds of the model.                                                    *)

MaxNameLen == 3

MaxFiles == 2

MaxAccept == 2

MaxSelect == 1

-----------------------------------------------------------------------------
(* Characters and strings.                                                 *)

\* The characters file names are built from: a lower-case and an upper-case
\* letter, the dot, and a character that is neither a letter nor a digit.
Alphabet == {"p", "P", ".", "-"}

LowerLetters ==
  {"a", "b", "c", "d", "e", "f", "g", "h", "i", "j", "k", "l", "m",
   "n", "o", "p", "q", "r", "s", "t", "u", "v", "w", "x", "y", "z"}

Digits == {"0", "1", "2", "3", "4", "5", "6", "7", "8", "9"}

\* Characters the regular-expression dot does not match.
LineTerminators == {"\n", "\r"}

\* String.prototype.toLowerCase on one character (the upper-case letters
\* that occur in the model).
LowerChar(c) ==
  CASE c = "P" -> "p"
    [] c = "A" -> "a"
    [] OTHER -> c

\* String.prototype.toLowerCase.
toLowerCase(s) == [i \in 1..Len(s) |-> LowerChar(s[i])]

RECURSIVE StringsOfLen(_, _)
StringsOfLen(chars, n) ==
  IF n = 0 THEN {<<>>}
  ELSE {Append(s, c) : s \in StringsOfLen(chars, n - 1), c \in chars}

RECURSIVE SeqsUpTo(_, _)
\* All sequences over S of length at most n.
SeqsUpTo(S, n) ==
  IF n = 0 THEN {<<>>}
  ELSE SeqsUpTo(S, n - 1) \cup {Append(s, x) : s \in StringsOfLen(S, n - 1), x \in S}

-----------------------------------------------------------------------------
(* Regular expressions: new RegExp(pattern, 'i').                          *)
(* A pattern is a sequence of atoms, each a character class that is        *)
(* matched once or (plus) one or more times, optionally followed by $.     *)

\* defaultProps.pattern = '.[0-9a-z]+$': the dot is not escaped, so the
\* first atom matches any character.
DefaultPattern ==
  [atoms |-> << [class |-> "any", plus |-> FALSE],
                [class |-> "alnum", plus |-> TRUE] >>,
   anchored |-> TRUE]

\* A pattern prop a caller may pass: '\.[0-9a-z]+$'.
EscapedDotPattern ==
  [atoms |-> << [class |-> "dot", plus |-> FALSE],
                [class |-> "alnum", plus |-> TRUE] >>,
   anchored |-> TRUE]

Patterns == {DefaultPattern, EscapedDotPattern}

\* One character against one class, under the flag 'i' (the class [0-9a-z]
\* also matches the upper-case letters).
ClassMatches(class, c) ==
  CASE class = "any" -> c \notin LineTerminators
    [] class = "dot" -> c = "."
    [] class = "alnum" -> LowerChar(c) \in (Digits \cup LowerLetters)
    [] OTHER -> FALSE

RECURSIVE MatchEnds(_, _, _, _)
\* The positions at which a match of atoms[k..] that starts at pos can end
\* (the position after its last character).
MatchEnds(atoms, s, k, pos) ==
  IF k > Len(atoms) THEN {pos}
  ELSE IF pos > Len(s) \/ ~ClassMatches(atoms[k].class, s[pos]) THEN {}
  ELSE MatchEnds(atoms, s, k + 1, pos + 1)
       \cup (IF atoms[k].plus THEN MatchEnds(atoms, s, k, pos + 1) ELSE {})

\* The ends of the matches of the whole pattern that start at pos.
EndsAt(re, s, pos) ==
  {e \in MatchEnds(re.atoms, s, 1, pos) : re.anchored => e = Len(s) + 1}

\* RegExp.prototype.test(name).
RegExpTest(re, s) == \E pos \in 1..Len(s) : EndsAt(re, s, pos) # {}

Max(S) == CHOOSE x \in S : \A y \in S : y <= x

Min(S) == CHOOSE x \in S : \A y \in S : x <= y

\* name.match(re)[0]: the leftmost match, its quantifier greedy.  Only
\* evaluated when RegExpTest holds.
RegExpMatch(re, s) ==
  LET start == Min({pos \in 1..Len(s) : EndsAt(re, s, pos) # {}})
      end == Max(EndsAt(re, s, start))
  IN SubSeq(s, start, end - 1)

-----------------------------------------------------------------------------
(* Files and events.                                                       *)

\* A File object as the host delivers it: invalidFileType is not set.
File(name, type) == [name |-> name, type |-> type, invalidFileType |-> FALSE]

EmptyString == <<>>

PngMime == <<"i", "m", "a", "g", "e", "/", "p", "n", "g">>

MimeTypes == {EmptyString, PngMime}

ExtLower == <<".", "p">>

ExtUpper == <<".", "P">>

\* What an accept list may hold: extension tokens and MIME types.
AcceptEntries == {ExtLower, ExtUpper, PngMime}

FileNames == SeqsUpTo(Alphabet, MaxNameLen) \ {<<>>}

Files == {File(n, t) : n \in FileNames, t \in MimeTypes}

\* The files of the transfers of more than one file: a name with an
\* extension, and a name without a dot (which the default pattern matches
\* and the escaped one does not) that has a MIME type.
SampleFiles ==
  { File(<<"p", ".", "p">>, EmptyString),
    File(<<"p", "p">>, PngMime) }

\* The event object of a drop (event.dataTransfer.files).
DropEvent(files) ==
  [type |-> "drop", dataTransfer |-> [files |-> files], target |-> [files |-> <<>>]]

\* The event object of the input's change (event.target.files).
ChangeEvent(files) ==
  [type |-> "change", dataTransfer |-> [files |-> <<>>], target |-> [files |-> files]]

-----------------------------------------------------------------------------
(* validateFiles.                                                          *)

\* new Set(accept)
AcceptedTypes(acceptProp) == {acceptProp[i] : i \in 1..Len(acceptProp)}

\* IsAccepted without the test of the MIME type.
IsAccepted_ExtensionOnly(acceptedTypes, mimeType, fileExtension) ==
  toLowerCase(fileExtension) \in acceptedTypes

\* acceptedTypes.has(mimeType) || acceptedTypes.has(fileExtension.toLowerCase())
IsAccepted(acceptedTypes, mimeType, fileExtension) ==
  \/ mimeType \in acceptedTypes
  \/ toLowerCase(fileExtension) \in acceptedTypes

\* The file object curr after the reduce callback has run on it: the
\* callback sets invalidFileType on a file that has an extension and is not
\* accepted, and leaves every other file alone.
VisitFile(curr, acceptedTypes, re) ==
  IF ~RegExpTest(re, curr.name) THEN curr
  ELSE IF IsAccepted(acceptedTypes, curr.type, RegExpMatch(re, curr.name)) THEN curr
  ELSE [curr EXCEPT !.invalidFileType = TRUE]

\* ReduceStep putting the file in front of the accumulator.
ReduceStep_Prepends(acc, curr, acceptedTypes, re) ==
  IF ~RegExpTest(re, curr.name) THEN acc
  ELSE <<VisitFile(curr, acceptedTypes, re)>> \o acc

\* The reduce callback: the accumulator after curr.
ReduceStep(acc, curr, acceptedTypes, re) ==
  LET hasFileExtension == RegExpTest(re, curr.name)
  IN IF ~hasFileExtension THEN acc
     ELSE Append(acc, VisitFile(curr, acceptedTypes, re))

RECURSIVE Reduce(_, _, _, _)
\* transferredFiles.reduce(callback, acc)
Reduce(transferredFiles, acc, acceptedTypes, re) ==
  IF transferredFiles = <<>> THEN acc
  ELSE Reduce(Tail(transferredFiles),
              ReduceStep(acc, Head(transferredFiles), acceptedTypes, re),
              acceptedTypes, re)

TransferredFiles(event) ==
  IF event.type = "drop" THEN event.dataTransfer.files ELSE event.target.files

\* validateFiles without the early return for an empty accept list.
validateFiles_AlwaysReduces(event, acceptProp, patternProp) ==
  Reduce(TransferredFiles(event), <<>>, AcceptedTypes(acceptProp), patternProp)

\* validateFiles(event), with the props it closes over.
validateFiles(event, acceptProp, patternProp) ==
  LET transferredFiles == TransferredFiles(event)
  IN IF Len(acceptProp) = 0 THEN transferredFiles
     ELSE Reduce(transferredFiles, <<>>, AcceptedTypes(acceptProp), patternProp)

\* The file objects of the event once validateFiles has returned.
FilesAfterValidate(event, acceptProp, patternProp) ==
  LET transferredFiles == TransferredFiles(event)
  IN IF Len(acceptProp) = 0 THEN transferredFiles
     ELSE [i \in 1..Len(transferredFiles) |->
             VisitFile(transferredFiles[i], AcceptedTypes(acceptProp), patternProp)]

-----------------------------------------------------------------------------
(* The component.                                                          *)

\* The input's files once its value is set to null: the empty list.
NoSelection == <<>>

\* dragged is the list of the drags in progress: none, or one file list.
NoDrag == <<>>

Payload(drag) == drag[1]

\* keys.Enter, keys.Space and a key that is neither.
Keys == {"Enter", " ", "Tab"}

\* matches(evt, [keys.Enter, keys.Space])
matches(key) == key \in {"Enter", " "}

\* What one step did: the event handled, the files of the event as
\* delivered (transferred) and as the handler left them (files), the calls
\* the handler made in order (effects), the addedFiles of each onAddFiles
\* call, the number of inputRef.current.click() calls, and whether a picker
\* selection repeated the one before.
Step(type, key, transferred, files, effects, onAddFiles, inputClicks, repeat) ==
  [type |-> type, key |-> key, transferred |-> transferred, files |-> files,
   effects |-> effects, onAddFiles |-> onAddFiles, inputClicks |-> inputClicks,
   repeat |-> repeat]

NoFiles == <<>>

\* The accept props of the component's behaviours.
SampleAccepts == {<<>>, <<ExtLower>>, <<PngMime>>}

\* The file lists a drag can carry.
DragLists == SeqsUpTo(SampleFiles, MaxFiles)

\* The file lists the picker can return: at least one file.
Selections == SeqsUpTo(SampleFiles, MaxSelect) \ {<<>>}

\* The calls of handleChange(event), in order.
HandleChangeEffects == <<"validateFiles", "onAddFiles">>

\* handleChange handing the transferred files on as they came.
handleChange_Unvalidated(event, acceptProp, patternProp) ==
  << TransferredFiles(event) >>

\* handleChange(event): the addedFiles of the onAddFiles calls it makes.
handleChange(event, acceptProp, patternProp) ==
  << validateFiles(event, acceptProp, patternProp) >>

\* The first render: the props the component is mounted with.
Init ==
  /\ accept \in SampleAccepts
  /\ pattern \in Patterns
  /\ disabled \in BOOLEAN
  /\ isActive = FALSE
  /\ inputValue = NoSelection
  /\ pickerOpen = FALSE
  /\ prevSelection = NoSelection
  /\ dragged = NoDrag
  /\ last = Step("render", "", NoFiles, NoFiles, <<>>, <<>>, 0, FALSE)

\* A render with new props; the state of the hooks and of the DOM input is
\* kept.
Rerender(a, p, d) ==
  /\ <<a, p, d>> # <<accept, pattern, disabled>>
  /\ accept' = a
  /\ pattern' = p
  /\ disabled' = d
  /\ last' = Step("render", "", NoFiles, NoFiles, <<>>, <<>>, 0, FALSE)
  /\ UNCHANGED <<isActive, inputValue, pickerOpen, prevSelection, dragged>>

\* The user drags files over the page (no event of the component yet).
DragStart(files) ==
  /\ dragged = NoDrag
  /\ dragged' = <<files>>
  /\ last' = Step("dragstart", "", files, files, <<>>, <<>>, 0, FALSE)
  /\ UNCHANGED <<accept, pattern, disabled, isActive, inputValue, pickerOpen,
                 prevSelection>>

\* The user drops outside the component or aborts the drag.
DragEnd ==
  /\ dragged # NoDrag
  /\ dragged' = NoDrag
  /\ last' = Step("dragend", "", NoFiles, NoFiles, <<>>, <<>>, 0, FALSE)
  /\ UNCHANGED <<accept, pattern, disabled, isActive, inputValue, pickerOpen,
                 prevSelection>>

\* onDragOver
OnDragOver ==
  /\ dragged # NoDrag
  /\ IF disabled
     THEN /\ UNCHANGED isActive
          /\ last' = Step("dragover", "", NoFiles, NoFiles,
                          <<"stopPropagation", "preventDefault">>, <<>>, 0, FALSE)
     ELSE /\ isActive' = TRUE
          /\ last' = Step("dragover", "", NoFiles, NoFiles,
                          <<"stopPropagation", "preventDefault", "setActive">>,
                          <<>>, 0, FALSE)
  /\ UNCHANGED <<accept, pattern, disabled, inputValue, pickerOpen,
                 prevSelection, dragged>>

\* onDragLeave
OnDragLeave ==
  /\ dragged # NoDrag
  /\ IF disabled
     THEN /\ UNCHANGED isActive
          /\ last' = Step("dragleave", "", NoFiles, NoFiles,
                          <<"stopPropagation", "preventDefault">>, <<>>, 0, FALSE)
     ELSE /\ isActive' = FALSE
          /\ last' = Step("dragleave", "", NoFiles, NoFiles,
                          <<"stopPropagation", "preventDefault", "setActive">>,
                          <<>>, 0, FALSE)
  /\ UNCHANGED <<accept, pattern, disabled, inputValue, pickerOpen,
                 prevSelection, dragged>>

\* onDrop without the return for a disabled component.
OnDrop_IgnoresDisabled ==
  /\ dragged # NoDrag
  /\ dragged' = NoDrag
  /\ isActive' = FALSE
  /\ last' = Step("drop", "", Payload(dragged),
                  FilesAfterValidate(DropEvent(Payload(dragged)), accept, pattern),
                  <<"stopPropagation", "preventDefault", "setActive">>
                    \o HandleChangeEffects,
                  handleChange(DropEvent(Payload(dragged)), accept, pattern),
                  0, FALSE)
  /\ UNCHANGED <<accept, pattern, disabled, inputValue, pickerOpen,
                 prevSelection>>

\* onDrop: the drop ends the drag.
OnDrop ==
  /\ dragged # NoDrag
  /\ dragged' = NoDrag
  /\ IF disabled
     THEN /\ UNCHANGED isActive
          /\ last' = Step("drop", "", Payload(dragged), Payload(dragged),
                          <<"stopPropagation", "preventDefault">>, <<>>, 0, FALSE)
     ELSE /\ isActive' = FALSE
          /\ last' = Step("drop", "", Payload(dragged),
                          FilesAfterValidate(DropEvent(Payload(dragged)), accept, pattern),
                          <<"stopPropagation", "preventDefault", "setActive">>
                            \o HandleChangeEffects,
                          handleChange(DropEvent(Payload(dragged)), accept, pattern),
                          0, FALSE)
  /\ UNCHANGED <<accept, pattern, disabled, inputValue, pickerOpen,
                 prevSelection>>

\* The input's onClick leaving the value as it is.
InputValueAfterClick_Keeps(value, isDisabled) == value

\* The click event on the file input (from inputRef.current.click() or from
\* the label): a disabled input gets none; otherwise its onClick sets the
\* value to null and the picker opens.  The input's value afterwards.
InputValueAfterClick(value, isDisabled) ==
  IF isDisabled THEN value ELSE NoSelection

\* The calls of the input's onClick, if the click event is dispatched.
InputClickEffects(isDisabled) ==
  IF isDisabled THEN <<>> ELSE <<"input.onClick">>

\* handleClick: the number of inputRef.current.click() calls.
handleClick(isDisabled) == IF ~isDisabled THEN 1 ELSE 0

\* The button's onKeyDown: the number of inputRef.current.click() calls.
onKeyDown(key, isDisabled) == IF matches(key) THEN 1 ELSE 0

\* The button's onClick: composeEventHandlers([onClick, handleClick]).
ButtonClick ==
  LET clicks == handleClick(disabled)
  IN /\ inputValue' = IF clicks > 0
                      THEN InputValueAfterClick(inputValue, disabled)
                      ELSE inputValue
     /\ pickerOpen' = (pickerOpen \/ (clicks > 0 /\ ~disabled))
     /\ last' = Step("click", "", NoFiles, NoFiles,
                     <<"onClick">> \o
                       (IF clicks > 0
                        THEN <<"input.click">> \o InputClickEffects(disabled)
                        ELSE <<>>),
                     <<>>, clicks, FALSE)
     /\ UNCHANGED <<accept, pattern, disabled, isActive, prevSelection, dragged>>

\* The button's onKeyDown.
ButtonKeyDown(key) ==
  LET clicks == onKeyDown(key, disabled)
  IN /\ inputValue' = IF clicks > 0
                      THEN InputValueAfterClick(inputValue, disabled)
                      ELSE inputValue
     /\ pickerOpen' = (pickerOpen \/ (clicks > 0 /\ ~disabled))
     /\ last' = Step("keydown", key, NoFiles, NoFiles,
                     IF clicks > 0
                     THEN <<"preventDefault", "input.click">>
                            \o InputClickEffects(disabled)
                     ELSE <<>>,
                     <<>>, clicks, FALSE)
     /\ UNCHANGED <<accept, pattern, disabled, isActive, prevSelection, dragged>>

\* A click on the label (htmlFor = the input's id): the browser clicks the
\* input.
LabelClick ==
  /\ inputValue' = InputValueAfterClick(inputValue, disabled)
  /\ pickerOpen' = (pickerOpen \/ ~disabled)
  /\ last' = Step("labelclick", "", NoFiles, NoFiles,
                  InputClickEffects(disabled), <<>>, 0, FALSE)
  /\ UNCHANGED <<accept, pattern, disabled, isActive, prevSelection, dragged>>

\* The user picks files in the open picker.  The browser stores them and
\* fires the input's change event (onChange = handleChange) unless they are
\* the selection the input already holds.
PickerSelect(files) ==
  /\ pickerOpen
  /\ pickerOpen' = FALSE
  /\ prevSelection' = files
  /\ IF files # inputValue
     THEN /\ inputValue' = files
          /\ last' = Step("change", "", files,
                          FilesAfterValidate(ChangeEvent(files), accept, pattern),
                          HandleChangeEffects,
                          handleChange(ChangeEvent(files), accept, pattern),
                          0, files = prevSelection)
     ELSE /\ UNCHANGED inputValue
          /\ last' = Step("nochange", "", files, files, <<>>, <<>>, 0,
                          files = prevSelection)
  /\ UNCHANGED <<accept, pattern, disabled, isActive, dragged>>

\* The user closes the picker without choosing.
PickerCancel ==
  /\ pickerOpen
  /\ pickerOpen' = FALSE
  /\ last' = Step("cancel", "", NoFiles, NoFiles, <<>>, <<>>, 0, FALSE)
  /\ UNCHANGED <<accept, pattern, disabled, isActive, inputValue,
                 prevSelection, dragged>>

Next ==
  \/ \E a \in SampleAccepts, p \in Patterns, d \in BOOLEAN : Rerender(a, p, d)
  \/ \E files \in DragLists : DragStart(files)
  \/ DragEnd
  \/ OnDragOver
  \/ OnDragLeave
  \/ OnDrop
  \/ ButtonClick
  \/ \E key \in Keys : ButtonKeyDown(key)
  \/ LabelClick
  \/ \E files \in Selections : PickerSelect(files)
  \/ PickerCancel

Spec == Init /\ [][Next]_vars

-----------------------------------------------------------------------------
(* validateFiles on its own: every accept list, pattern and file, in the   *)
(* drop of a drag that is under way.                                       *)

AcceptProps == SeqsUpTo(AcceptEntries, MaxAccept)

\* Every single file, and the lists of the sample files.
ValidateInputs == {<<f>> : f \in Files} \cup DragLists

InitValidate ==
  /\ accept \in AcceptProps
  /\ pattern \in Patterns
  /\ disabled = FALSE
  /\ isActive \in BOOLEAN
  /\ inputValue = NoSelection
  /\ pickerOpen = FALSE
  /\ prevSelection = NoSelection
  /\ dragged \in {<<files>> : files \in ValidateInputs}
  /\ last = Step("dragstart", "", Payload(dragged), Payload(dragged),
                 <<>>, <<>>, 0, FALSE)

NextValidate == OnDrop

SpecValidate == InitValidate /\ [][NextValidate]_vars

-----------------------------------------------------------------------------
(* Properties.                                                             *)

\* The last step was a handler that ran validateFiles on the event's files.
Validated == last.type \in {"drop", "change"} /\ Len(last.onAddFiles) > 0

\* The addedFiles of the last step's onAddFiles call.
AddedFiles == last.onAddFiles[1]

\* The file name matches the pattern prop.
NameMatches(file) == RegExpTest(pattern, file.name)

\* The number of files among the first i transferred files whose name
\* matches the pattern: the place of the i-th file in the result.
PlaceOf(i) == Cardinality({j \in 1..i : NameMatches(last.transferred[j])})

\* The file without its annotation.
Unmarked(file) == [file EXCEPT !.invalidFileType = FALSE]

C2_EmptyAcceptReturnsInput ==
  (Validated /\ Len(accept) = 0) =>
    /\ AddedFiles = last.transferred
    /\ last.files = last.transferred

\* C2 witness: an empty accept list and two transferred files, one of which
\* the pattern does not match.
C2_Witness ==
  /\ Validated
  /\ Len(accept) = 0
  /\ Len(AddedFiles) = 2
  /\ \E i \in 1..2 : ~NameMatches(last.transferred[i])

\* C3 as stated: classification never removes a file; every input file is in
\* the result exactly once, in the order of the input.
C3_NeverRemovesAFile ==
  Validated =>
    /\ Len(AddedFiles) = Len(last.transferred)
    /\ \A i \in 1..Len(AddedFiles) : Unmarked(AddedFiles[i]) = last.transferred[i]

\* C3 amended: the result holds, in the order of the input and once each,
\* exactly the input files whose name matches the pattern (every input file
\* when the accept list is empty), each unmarked or marked invalid.
C3_KeepsTheMatchingFilesInOrder ==
  Validated =>
    [i \in 1..Len(AddedFiles) |-> Unmarked(AddedFiles[i])]
      = IF Len(accept) = 0 THEN last.transferred
        ELSE SelectSeq(last.transferred, NameMatches)

\* C3 witness: a non-empty accept list, and a transfer of which one file is
\* kept and another is left out.
C3_Witness ==
  /\ Validated
  /\ Len(accept) > 0
  /\ Len(AddedFiles) >= 1
  /\ Len(AddedFiles) < Len(last.transferred)

\* C4: a file is accepted whenever its extension equals an accept-list entry
\* up to letter case, whichever of the two has the upper-case letters.
C4_ExtensionMatchIgnoresCase ==
  (Validated /\ Len(accept) > 0) =>
    \A i \in 1..Len(last.transferred) :
      LET file == last.transferred[i]
      IN (/\ NameMatches(file)
          /\ \E entry \in AcceptedTypes(accept) :
               toLowerCase(entry) = toLowerCase(RegExpMatch(pattern, file.name)))
         => ~last.files[i].invalidFileType

\* A letter or a digit.
IsAlnum(c) == LowerChar(c) \in (Digits \cup LowerLetters)

\* The name ends in a dot followed by letters or digits.
HasTrailingDotExtension(name) ==
  \E k \in 1..(Len(name) - 1) :
    /\ name[k] = "."
    /\ \A j \in (k + 1)..Len(name) : IsAlnum(name[j])

\* C10: with the default pattern and a non-empty accept list, a file whose
\* name has no trailing dot-extension is left out of the result and is not
\* annotated.
C10_NoDotExtensionIsExcluded ==
  (Validated /\ Len(accept) > 0 /\ pattern = DefaultPattern) =>
    \A i \in 1..Len(last.transferred) :
      LET file == last.transferred[i]
      IN ~HasTrailingDotExtension(file.name) =>
           /\ \A k \in 1..Len(AddedFiles) : AddedFiles[k].name # file.name
           /\ ~last.files[i].invalidFileType

\* The place of an effect in the calls of the last step (0: not called).
CallIndex(effect) ==
  IF \E i \in 1..Len(last.effects) : last.effects[i] = effect
  THEN CHOOSE i \in 1..Len(last.effects) : last.effects[i] = effect
  ELSE 0

\* The number of calls of an effect in the last step.
CallCount(effect) ==
  Cardinality({i \in 1..Len(last.effects) : last.effects[i] = effect})

\* C5: a drop while not disabled sets the drag state to IDLE and then
\* invokes onAddFiles exactly once with the classified dropped files; every
\* native selection invokes it exactly once with the classified selection;
\* no other event invokes it.
C5_OnAddFilesOncePerDropOrSelection ==
  /\ (last.type = "drop" /\ ~disabled) =>
       /\ ~isActive
       /\ 0 < CallIndex("setActive")
       /\ CallIndex("setActive") < CallIndex("onAddFiles")
       /\ CallCount("onAddFiles") = 1
       /\ last.onAddFiles =
            << validateFiles(DropEvent(last.transferred), accept, pattern) >>
  /\ last.type \in {"change", "nochange"} =>
       /\ CallCount("onAddFiles") = 1
       /\ last.onAddFiles =
            << validateFiles(ChangeEvent(last.transferred), accept, pattern) >>
  /\ (last.type \notin {"drop", "change", "nochange"}
      \/ (disabled /\ last.type = "drop")) =>
       /\ CallCount("onAddFiles") = 0
       /\ last.onAddFiles = <<>>

\* C5 witness: a drop on the enabled component whose classified list has a
\* file marked invalid and is shorter than the dropped list.
C5_Witness ==
  /\ last.type = "drop"
  /\ ~disabled
  /\ Len(last.onAddFiles) = 1
  /\ Len(AddedFiles) < Len(last.transferred)
  /\ \E i \in 1..Len(AddedFiles) : AddedFiles[i].invalidFileType

\* C6: while disabled, a drag-over, drag-leave or drop leaves the drag state
\* as it was, and a drop annotates no file and does not invoke onAddFiles.
C6_DisabledFreezesDragAndDrop ==
  [][(disabled /\ last'.type \in {"dragover", "dragleave", "drop"}) =>
       /\ isActive' = isActive
       /\ last'.files = last'.transferred
       /\ last'.onAddFiles = <<>>
       /\ \A i \in 1..Len(last'.effects) :
            last'.effects[i] \notin {"setActive", "validateFiles", "onAddFiles"}]_vars

\* C6 witness: a drop on the disabled component, the drag state ACTIVE, of
\* a file that validateFiles would have marked invalid.
C6_Witness ==
  /\ last.type = "drop"
  /\ disabled
  /\ isActive
  /\ \E i \in 1..Len(last.transferred) :
       FilesAfterValidate(DropEvent(last.transferred), accept, pattern)[i]
         .invalidFileType

C8_ValueClearedAfterChange ==
  last.type \in {"change", "nochange"} =>
    /\ inputValue = NoSelection
    /\ Len(last.onAddFiles) = 1

\* C8 amended: the input's value is cleared by the click that opens the
\* picker, before the selection; after the change it holds the selected
\* files; every selection, also one that repeats the selection before it,
\* invokes onAddFiles once.
C8_ValueClearedBeforeSelection ==
  /\ pickerOpen => inputValue = NoSelection
  /\ last.type \in {"change", "nochange"} =>
       /\ inputValue = last.transferred
       /\ inputValue # NoSelection
       /\ Len(last.onAddFiles) = 1

\* C8 witness: the same files selected twice in a row, and onAddFiles
\* invoked for the second selection.
C8_Witness ==
  /\ last.type = "change"
  /\ last.repeat
  /\ Len(last.onAddFiles) = 1

\* C9: the drag state is IDLE whenever the component is disabled.
C9_DisabledImpliesIdle == disabled => ~isActive

====
